---- MODULE Spec2Model ----
(***************************************************************************)
(* StudyTracker: the task board (App), the month calendar and the chat     *)
(* client, three surfaces over the browser's localStorage.                 *)
(*                                                                         *)
(* Strings the code trims, compares, hashes or formats are sequences of    *)
(* one-character strings (Text); strings the code only tests for equality  *)
(* or emptiness (priority, notification texts, ids) are TLA+ strings.      *)
(* The JS value undefined / a missing property is the empty string or the  *)
(* empty Text, which is falsy exactly like undefined.                      *)
(***************************************************************************)
EXTENDS Integers, Sequences, FiniteSets, TLC

VARIABLES
    tasks,          \* App.tasks: sequence of task objects
    subjects,       \* App.subjects: sequence of subject names
    subjectColors,  \* App.subjectColors: a JS object (or array) with a name -> color map
    loaded,         \* TRUE once App.init has attached the board's handlers
    notification,   \* the notification last shown by Notifications.show
    now,            \* the clock read by Date.now(), in milliseconds
    cards,          \* data-task-id values of the task cards in the DOM
    stTasks,        \* localStorage["taskManagerTasks"]
    stSubjects,     \* localStorage["taskManagerSubjects"]
    stColors,       \* localStorage["taskManagerSubjectColors"]
    uncaught,       \* the handler whose exception escaped last, or "none"
    today,          \* calendar: <<year, monthIndex>> of new Date() during the session
    year,           \* calendar: the displayed year
    monthIndex,     \* calendar: the displayed month, 0..11
    calReady,       \* calendar: TRUE once DOMContentLoaded has attached the listeners
    cells,          \* calendar: day of the month -> the chips of its cell, as tasks
    messages,       \* Chat.messages
    stHistory,      \* localStorage["chat_history"]
    stApiKey,       \* localStorage["chat_api_key"]; "" when absent or empty
    stModel,        \* localStorage["chat_model"]; "" when absent
    chatReady,      \* chat: TRUE once DOMContentLoaded has attached the listeners
    inFlight,       \* chat: the requests sent by fetch and not settled yet
    sends,          \* chat: number of sends so far (the n-th send has number n)
    clockDate,      \* board: <<year, monthIndex, day>> of new Date() when a task is rendered
    dueInput,       \* board: <<year, monthIndex, day>> picked in the date input, <<>> if none
    badge           \* board: class and text of the due-date badge UI.taskHtml built last

calVars == <<today, year, monthIndex, calReady, cells>>
chatVars == <<messages, stHistory, stApiKey, stModel, chatReady, inFlight, sends>>
badgeVars == <<clockDate, dueInput, badge>>
vars == <<tasks, subjects, subjectColors, loaded, notification, now, cards,
          stTasks, stSubjects, stColors, uncaught, calVars, chatVars, badgeVars>>

(***************************************************************************)
(* Bounds of the model.                                                    *)
(***************************************************************************)
MaxTasks == 2       \* longest task list
MaxClock == 4       \* last clock reading; a session starts one reading before it
MaxCalTasks == 2    \* longest stored task list the calendar reads
MaxYearSpan == 1    \* years the calendar may move away from BaseYear

(***************************************************************************)
(* Text helpers.                                                           *)
(***************************************************************************)
Range(s) == {s[i] : i \in 1..Len(s)}

\* Array.prototype.filter: the elements at the positions in keep, in order.
FilterAt(s, keep) ==
    LET F[i \in 0..Len(s)] ==
            IF i = 0 THEN <<>>
            ELSE IF i \in keep THEN Append(F[i - 1], s[i]) ELSE F[i - 1]
    IN  F[Len(s)]

\* String.prototype.trim: strip leading and trailing white space.
RECURSIVE trimStart(_)
trimStart(t) == IF t # <<>> /\ Head(t) = " " THEN trimStart(Tail(t)) ELSE t

RECURSIVE trimEnd(_)
trimEnd(t) ==
    IF t # <<>> /\ t[Len(t)] = " " THEN trimEnd(SubSeq(t, 1, Len(t) - 1)) ELSE t

jsTrim(t) == trimEnd(trimStart(t))

\* Collation rank and UTF-16 code of the characters the model uses.
charRank(c) == CASE c = " " -> 0 [] c = "a" -> 1 [] c = "b" -> 2 [] c = "x" -> 3
charCodeAt(c) == CASE c = " " -> 32 [] c = "a" -> 97 [] c = "b" -> 98 [] c = "x" -> 120

\* a.localeCompare(b) on lower-case ASCII text: -1, 0 or 1, lexicographic.
RECURSIVE localeCompare(_, _)
localeCompare(a, b) ==
    IF a = <<>> THEN (IF b = <<>> THEN 0 ELSE -1)
    ELSE IF b = <<>> THEN 1
    ELSE IF charRank(Head(a)) < charRank(Head(b)) THEN -1
    ELSE IF charRank(Head(a)) > charRank(Head(b)) THEN 1
    ELSE localeCompare(Tail(a), Tail(b))

\* Array.prototype.sort is stable: x is inserted behind the last element it does
\* not compare below; notBelow holds the positions of those elements.
sortInsert(acc, x, notBelow) ==
    LET p == IF notBelow = {} THEN 0 ELSE CHOOSE j \in notBelow : \A k \in notBelow : k <= j
    IN  SubSeq(acc, 1, p) \o <<x>> \o SubSeq(acc, p + 1, Len(acc))

\* list.sort((a, b) => a.localeCompare(b))
sortByLocaleCompare(s) ==
    LET F[i \in 0..Len(s)] ==
            IF i = 0 THEN <<>>
            ELSE sortInsert(F[i - 1], s[i],
                            {j \in 1..Len(F[i - 1]) : localeCompare(s[i], F[i - 1][j]) >= 0})
    IN  F[Len(s)]

(***************************************************************************)
(* JS values as JSON.parse yields them, and localStorage entries.          *)
(* k: "absent" (getItem returns null), "text" (not JSON), "null",          *)
(* "scalar" (number, string, boolean), "object", "array".  An array keeps  *)
(* its elements in items; map holds the named properties of an object, and *)
(* of an array that code has set named properties on.                      *)
(***************************************************************************)
EmptyMap == [x \in {} |-> <<>>]

JsValue(kind, items, map) == [k |-> kind, items |-> items, map |-> map]
Absent == JsValue("absent", <<>>, EmptyMap)
NonJson == JsValue("text", <<>>, EmptyMap)
JsNull == JsValue("null", <<>>, EmptyMap)
JsScalar == JsValue("scalar", <<>>, EmptyMap)
JsArray(items) == JsValue("array", items, EmptyMap)
JsObject(map) == JsValue("object", <<>>, map)

\* JSON.parse(text) inside try/catch; JSON.parse(null) parses "null".
safelyParseJson(raw, fallback) ==
    IF raw.k = "text" THEN fallback
    ELSE IF raw.k = "absent" THEN JsNull
    ELSE raw

\* JSON.stringify: an array is written as its elements, named properties dropped.
JSON_stringify(v) == IF v.k = "array" THEN JsArray(v.items) ELSE v

isArray(v) == v.k = "array"
isObjectLike(v) == v.k \in {"object", "array"}     \* m && typeof m === 'object'

\* obj[key], truthy or not; obj[key] = value; delete obj[key].
HasColor(obj, key) == key \in DOMAIN obj.map /\ obj.map[key] # <<>>
PutColor(obj, key, value) ==
    [obj EXCEPT !.map = [x \in DOMAIN obj.map \cup {key} |->
                            IF x = key THEN value ELSE obj.map[x]]]
DeleteColor(obj, key) ==
    [obj EXCEPT !.map = [x \in DOMAIN obj.map \ {key} |-> obj.map[x]]]

(***************************************************************************)
(* Tasks. An element of a stored array is a task object or null.           *)
(***************************************************************************)
Task(id, name, subject, dueDate, priority, completed, createdAt) ==
    [ty |-> "object", id |-> id, name |-> name, subject |-> subject,
     dueDate |-> dueDate, priority |-> priority, completed |-> completed,
     createdAt |-> createdAt]
NullElem == [ty |-> "null", id |-> "", name |-> <<>>, subject |-> <<>>,
             dueDate |-> <<>>, priority |-> "", completed |-> FALSE, createdAt |-> 0]

(***************************************************************************)
(* Storage (part_000:99-106).                                              *)
(***************************************************************************)
Storage_loadTasks(raw) == safelyParseJson(raw, JsArray(<<>>))
Storage_saveTasks(list) == JSON_stringify(JsArray(list))
Storage_loadSubjects(raw) ==
    LET s == safelyParseJson(raw, JsArray(<<>>)) IN IF isArray(s) THEN s.items ELSE <<>>
Storage_saveSubjects(list) == JSON_stringify(JsArray(list))
Storage_loadSubjectColors(raw) ==
    LET m == safelyParseJson(raw, JsObject(EmptyMap))
    IN  IF isObjectLike(m) THEN m ELSE JsObject(EmptyMap)
Storage_saveSubjectColors(map) == JSON_stringify(map)

(***************************************************************************)
(* App.generateColorFor (part_000:337-343): string hash, hue, pastel hex.  *)
(* For the names of the model (at most 4 characters) the 32-bit wrap of    *)
(* "h |= 0" never triggers, so h is an unbounded integer here.             *)
(***************************************************************************)
Abs(n) == IF n < 0 THEN -n ELSE n

RECURSIVE hashFrom(_, _)
hashFrom(h, seed) ==
    IF seed = <<>> THEN h
    ELSE hashFrom((h * 32) - h + charCodeAt(Head(seed)), Tail(seed))

HexDigit(n) == <<"0","1","2","3","4","5","6","7","8","9","a","b","c","d","e","f">>[n + 1]
toHex(v) == <<HexDigit(v \div 16), HexDigit(v % 16)>>

\* S = 65, L = 60: C = 0.52, m = 0.34, X = 0.52 * (60 - |H mod 120 - 60|) / 60;
\* a channel is Math.round((v + m) * 255), in hundredths: 8670 + 221 * k for X.
hslToHex(H) ==
    LET k == 60 - Abs((H % 120) - 60)
        c == (8670 + 221 * 60 + 50) \div 100
        x == (8670 + 221 * k + 50) \div 100
        z == (8670 + 50) \div 100
        rgb == IF H < 60 THEN <<c, x, z>>
               ELSE IF H < 120 THEN <<x, c, z>>
               ELSE IF H < 180 THEN <<z, c, x>>
               ELSE IF H < 240 THEN <<z, x, c>>
               ELSE IF H < 300 THEN <<x, z, c>>
               ELSE <<c, z, x>>
    IN  <<"#">> \o toHex(rgb[1]) \o toHex(rgb[2]) \o toHex(rgb[3])

generateColorFor(seed) == hslToHex(Abs(hashFrom(0, seed)) % 360)

(***************************************************************************)
(* Dates: formatLocalISO (part_000:27-32, calendar.js:70-75) of the local  *)
(* date (year, monthIndex, day), and getDaysInMonth (calendar.js:37-39).   *)
(***************************************************************************)
BaseYear == 2024

decimalDigit(n) == <<"0","1","2","3","4","5","6","7","8","9">>[n + 1]
\* String(n).padStart(2, '0') for n < 100
padStart2(n) == <<decimalDigit(n \div 10), decimalDigit(n % 10)>>
\* String(y) for a four-digit year
yearString(y) ==
    <<decimalDigit(y \div 1000), decimalDigit((y \div 100) % 10),
      decimalDigit((y \div 10) % 10), decimalDigit(y % 10)>>

formatLocalISO(y, m, d) ==
    yearString(y) \o <<"-">> \o padStart2(m + 1) \o <<"-">> \o padStart2(d)

isLeapYear(y) == (y % 4 = 0 /\ y % 100 # 0) \/ y % 400 = 0

\* new Date(year, monthIndex + 1, 0).getDate()
getDaysInMonth(y, m) ==
    IF m = 1 THEN (IF isLeapYear(y) THEN 29 ELSE 28)
    ELSE IF m \in {3, 5, 8, 10} THEN 30 ELSE 31

(***************************************************************************)
(* Date objects of the board (part_000:22-41, 137-145). A Date at local    *)
(* midnight is the number of its day, counted from 1970-01-01; Date(NaN)   *)
(* is InvalidDate.                                                         *)
(***************************************************************************)
InvalidDate == [valid |-> FALSE, day |-> 0]
NaN == -1

\* days from 1970-01-01 to the first day of year y
daysBeforeYear(y) ==
    365 * (y - 1970) + ((y - 1) \div 4 - 1969 \div 4) - ((y - 1) \div 100 - 1969 \div 100)
        + ((y - 1) \div 400 - 1969 \div 400)

\* days from the first day of year y to the first day of its month m
daysBeforeMonth(y, m) ==
    LET F[k \in 0..m] == IF k = 0 THEN 0 ELSE F[k - 1] + getDaysInMonth(y, k - 1)
    IN  F[m]

\* new Date(y, m, d): a day past the end of the month runs into the next month
newDate(y, m, d) ==
    IF y = NaN THEN InvalidDate
    ELSE [valid |-> TRUE, day |-> daysBeforeYear(y) + daysBeforeMonth(y, m) + d - 1]

\* getFullYear, getMonth, getDate of a valid Date
getFullYear(date) ==
    CHOOSE y \in (BaseYear - 2)..(BaseYear + 2) :
        daysBeforeYear(y) <= date.day /\ date.day < daysBeforeYear(y + 1)
getMonth(date) ==
    LET y == getFullYear(date)
    IN  CHOOSE m \in 0..11 :
            /\ daysBeforeYear(y) + daysBeforeMonth(y, m) <= date.day
            /\ date.day < daysBeforeYear(y) + daysBeforeMonth(y, m) + getDaysInMonth(y, m)
getDate(date) ==
    LET y == getFullYear(date)
    IN  date.day - daysBeforeYear(y) - daysBeforeMonth(y, getMonth(date)) + 1
\* getDay: 0 is Sunday; 1970-01-01 was a Thursday
getDay(date) == (date.day + 4) % 7

WeekdayShort == <<"Sun", "Mon", "Tue", "Wed", "Thu", "Fri", "Sat">>
MonthShort ==
    <<"Jan", "Feb", "Mar", "Apr", "May", "Jun", "Jul", "Aug", "Sep", "Oct", "Nov", "Dec">>

\* formatLongDate (part_000:22-25): toLocaleDateString("en-US", weekday short,
\* year numeric, month short, day numeric)
formatLongDate(date) ==
    IF ~date.valid THEN "Invalid Date"
    ELSE WeekdayShort[getDay(date) + 1] \o ", " \o MonthShort[getMonth(date) + 1] \o " "
             \o ToString(getDate(date)) \o ", " \o ToString(getFullYear(date))

\* Date.prototype.toDateString, e.g. "Mon Jan 01 2024"
toDateString(date) ==
    IF ~date.valid THEN "Invalid Date"
    ELSE WeekdayShort[getDay(date) + 1] \o " " \o MonthShort[getMonth(date) + 1] \o " "
             \o (IF getDate(date) < 10 THEN "0" ELSE "") \o ToString(getDate(date))
             \o " " \o ToString(getFullYear(date))

\* ymd.split('-')
splitDash(s) ==
    LET F[i \in 0..Len(s)] ==
            IF i = 0 THEN << <<>> >>
            ELSE IF s[i] = "-" THEN Append(F[i - 1], <<>>)
            ELSE [F[i - 1] EXCEPT ![Len(F[i - 1])] = Append(@, s[i])]
    IN  F[Len(s)]

\* Number(parts[k]) of a part of decimal digits; "" is 0, a missing part and
\* any other text is NaN
Number(parts, k) ==
    LET Digits == {decimalDigit(n) : n \in 0..9}
        t == IF k <= Len(parts) THEN parts[k] ELSE <<"u">>
        F[i \in 0..Len(t)] ==
            IF i = 0 THEN 0
            ELSE 10 * F[i - 1] + (CHOOSE n \in 0..9 : decimalDigit(n) = t[i])
    IN  IF \A i \in 1..Len(t) : t[i] \in Digits THEN F[Len(t)] ELSE NaN

\* parseLocalYMD (part_000:34-41)
parseLocalYMD(ymd) ==
    IF ymd = <<>> THEN InvalidDate
    ELSE LET parts == splitDash(ymd)
             y == Number(parts, 1)
             m == Number(parts, 2)
             d == Number(parts, 3)
         IN  newDate(y, (IF m = NaN \/ m = 0 THEN 1 ELSE m) - 1,
                     IF d = NaN \/ d = 0 THEN 1 ELSE d)

Badge(cls, txt) == [cls |-> cls, txt |-> txt]
NoBadge == Badge("", "")

\* UI.taskHtml with dueDate <= today in place of dueDate < today
taskHtml_overdueToday(dueDate, clock) ==
    LET due == parseLocalYMD(dueDate)
        todayDate == newDate(clock[1], clock[2], clock[3])
        tomorrow == newDate(getFullYear(todayDate), getMonth(todayDate), getDate(todayDate) + 1)
        txt == formatLongDate(due)
    IN  IF due.valid /\ due.day <= todayDate.day THEN Badge("overdue", "Overdue - " \o txt)
        ELSE IF toDateString(due) = toDateString(todayDate)
             THEN Badge("due-soon", "Due Today - " \o txt)
        ELSE IF toDateString(due) = toDateString(tomorrow)
             THEN Badge("due-soon", "Due Tomorrow - " \o txt)
        ELSE Badge("", txt)

\* UI.taskHtml (part_000:137-145): class and text of the due-date badge; today
\* is new Date() at 00:00 local time, a comparison with Date(NaN) is false
taskHtml(dueDate, clock) ==
    LET due == parseLocalYMD(dueDate)
        todayDate == newDate(clock[1], clock[2], clock[3])
        tomorrow == newDate(getFullYear(todayDate), getMonth(todayDate), getDate(todayDate) + 1)
        txt == formatLongDate(due)
    IN  IF due.valid /\ due.day < todayDate.day THEN Badge("overdue", "Overdue - " \o txt)
        ELSE IF toDateString(due) = toDateString(todayDate)
             THEN Badge("due-soon", "Due Today - " \o txt)
        ELSE IF toDateString(due) = toDateString(tomorrow)
             THEN Badge("due-soon", "Due Tomorrow - " \o txt)
        ELSE Badge("", txt)

(***************************************************************************)
(* Notifications.show (part_000:79-96): the message and its type.          *)
(***************************************************************************)
Notice(message, type) == [message |-> message, type |-> type]
NoNotice == Notice("", "")

(***************************************************************************)
(* Inputs of the board.                                                    *)
(***************************************************************************)
SubjectNames == {<<"a">>, <<"b">>}
\* what the user types into prompt(): NullInput is Cancel
NullInput == <<"null">>
PromptInputs == {NullInput, <<>>, <<" ">>, <<"a">>, <<" ", "b">>}
TaskNameInputs == {<<>>, <<" ">>, <<"x">>}
DueDateInputs == {<<>>, formatLocalISO(BaseYear, 0, 31)}
PriorityInputs == {"", "high"}
UserColors == {<<"#","0","0","0","0","0","0">>}

\* Date.now().toString()
dateNowString(t) == ToString(t)

(***************************************************************************)
(* App.init (part_000:174-259), the part that loads and repairs the state. *)
(* A page load starts from the constructed App (empty fields) and runs     *)
(* init; null.subject / null.priority throw a TypeError out of init,       *)
(* before any handler is attached.                                         *)
(***************************************************************************)
\* Array.from(new Set(list)): first occurrences, in order
Dedupe(list) ==
    LET F[i \in 0..Len(list)] ==
            IF i = 0 THEN <<>>
            ELSE IF list[i] \in Range(F[i - 1]) THEN F[i - 1] ELSE Append(F[i - 1], list[i])
    IN  F[Len(list)]

withPriority(t) == IF t.priority = "" THEN [t EXCEPT !.priority = "medium"] ELSE t

\* new Set(tasks.map(t => t.subject).filter(Boolean))
deriveSubjects(list) ==
    LET names == [i \in 1..Len(list) |-> list[i].subject]
    IN  Dedupe(FilterAt(names, {i \in 1..Len(names) : names[i] # <<>>}))

\* the default color given to every subject, also to one that has a color
withDefaultColors_always(obj, subs) ==
    [obj EXCEPT !.map = [x \in DOMAIN obj.map \cup Range(subs) |->
                            IF x \in Range(subs)
                            THEN generateColorFor(x) ELSE obj.map[x]]]

withDefaultColors(obj, subs) ==
    [obj EXCEPT !.map = [x \in DOMAIN obj.map \cup Range(subs) |->
                            IF x \in Range(subs) /\ ~HasColor(obj, x)
                            THEN generateColorFor(x) ELSE obj.map[x]]]

\* UI.renderSubjects (part_000:109-136): one card per subject, holding the
\* subject's tasks that are not completed; the ids on the task cards.
renderSubjects(subs, list) ==
    {list[i].id : i \in {j \in 1..Len(list) :
                            list[j].subject \in Range(subs) /\ ~list[j].completed}}

\* tasks.filter(t => t.subject === subject && !t.completed) (part_000:120-121):
\* the task items of a subject's card, in the order they are shown
subjectTasks(subject, list) ==
    FilterAt(list, {i \in 1..Len(list) : list[i].subject = subject /\ ~list[i].completed})

AppInit ==
    LET parsed == Storage_loadTasks(stTasks)
        tasks0 == IF isArray(parsed) THEN parsed.items ELSE <<>>
        subjects0 == Storage_loadSubjects(stSubjects)
        derive == subjects0 = <<>> /\ tasks0 # <<>>
        throws == \E i \in 1..Len(tasks0) : tasks0[i].ty = "null"
        subjects1 == IF derive THEN deriveSubjects(tasks0) ELSE subjects0
        tasks1 == [i \in 1..Len(tasks0) |-> withPriority(tasks0[i])]
        mutated == \E i \in 1..Len(tasks0) : tasks0[i].priority = ""
        colors0 == Storage_loadSubjectColors(stColors)
        colorsMutated == \E i \in 1..Len(subjects1) : ~HasColor(colors0, subjects1[i])
        colors1 == withDefaultColors(colors0, subjects1)
    IN  /\ notification' = NoNotice
        /\ IF throws
           THEN /\ tasks' = tasks0
                /\ subjects' = subjects0
                /\ subjectColors' = JsObject(EmptyMap)
                /\ loaded' = FALSE
                /\ uncaught' = "App.init"
                /\ cards' = {}
                /\ UNCHANGED <<stTasks, stSubjects, stColors>>
           ELSE /\ tasks' = tasks1
                /\ subjects' = subjects1
                /\ subjectColors' = colors1
                /\ loaded' = TRUE
                /\ uncaught' = "none"
                /\ cards' = renderSubjects(subjects1, tasks1)
                /\ stSubjects' = IF derive THEN Storage_saveSubjects(subjects1) ELSE stSubjects
                /\ stTasks' = IF mutated THEN Storage_saveTasks(tasks1) ELSE stTasks
                /\ stColors' = IF colorsMutated THEN Storage_saveSubjectColors(colors1)
                               ELSE stColors
        /\ UNCHANGED <<now, calVars, chatVars,
                   badgeVars>>

(***************************************************************************)
(* App.onSubmit (part_000:260-285). The subject select holds "" and the    *)
(* subjects UI.refreshSelect wrote at the last change of the subject list. *)
(***************************************************************************)
\* mutant: the due date is not validated
onSubmitInvalid_noDate(name, subject, dueDate, priority) ==
    name = <<>> \/ subject = <<>> \/ priority = ""

onSubmitInvalid(name, subject, dueDate, priority) ==
    name = <<>> \/ subject = <<>> \/ dueDate = <<>> \/ priority = ""

newTask(name, subject, dueDate, priority, t) ==
    Task(dateNowString(t), name, subject, dueDate, priority, FALSE, t)

onSubmit(nameIn, subjectIn, dueIn, priorityIn) ==
    LET name == jsTrim(nameIn)
        subject == jsTrim(subjectIn)
        priority == IF priorityIn # "" THEN priorityIn ELSE "medium"
    IN  /\ loaded
        /\ IF onSubmitInvalid(name, subject, dueIn, priority)
           THEN /\ notification' = Notice("Please fill in all fields", "error")
                /\ UNCHANGED <<tasks, stTasks, cards>>
           ELSE /\ Len(tasks) < MaxTasks
                /\ tasks' = Append(tasks, newTask(name, subject, dueIn, priority, now))
                /\ stTasks' = Storage_saveTasks(tasks')
                /\ cards' = renderSubjects(subjects, tasks')
                /\ notification' = Notice("Task added successfully!", "success")
        /\ UNCHANGED <<subjects, subjectColors, loaded, now, stSubjects, stColors, uncaught,
                       calVars, chatVars,
                   badgeVars>>

(***************************************************************************)
(* App.onAddSubject (part_000:286-301).                                    *)
(***************************************************************************)
addSorted(list, name) == sortByLocaleCompare(Append(list, name))

onAddSubject(input) ==
    LET name == jsTrim(input)
    IN  /\ loaded
        /\ IF input = NullInput \/ input = <<>> \/ name = <<>>
           THEN UNCHANGED <<subjects, subjectColors, stSubjects, stColors, notification,
                            cards>>
           ELSE IF name \in Range(subjects)
           THEN /\ notification' = Notice("Subject already exists", "error")
                /\ UNCHANGED <<subjects, subjectColors, stSubjects, stColors, cards>>
           ELSE /\ subjects' = addSorted(subjects, name)
                /\ stSubjects' = Storage_saveSubjects(subjects')
                /\ subjectColors' = PutColor(subjectColors, name, generateColorFor(name))
                /\ stColors' = Storage_saveSubjectColors(subjectColors')
                /\ cards' = renderSubjects(subjects', tasks)
                /\ notification' = Notice("Subject added", "success")
        /\ UNCHANGED <<tasks, loaded, now, stTasks, uncaught, calVars, chatVars,
                   badgeVars>>

(***************************************************************************)
(* App.deleteSubject (part_000:302-312); confirmed is confirm()'s answer.  *)
(***************************************************************************)
\* mutants: the cascade keeps the subject's completed tasks; no cascade at all
withoutTasksOf_activeOnly(list, subject) ==
    FilterAt(list, {i \in 1..Len(list) : list[i].subject # subject \/ list[i].completed})
withoutTasksOf_keepAll(list, subject) == list

withoutSubject(list, subject) == FilterAt(list, {i \in 1..Len(list) : list[i] # subject})
withoutTasksOf(list, subject) ==
    FilterAt(list, {i \in 1..Len(list) : list[i].subject # subject})

deleteSubject(subject, confirmed) ==
    /\ loaded
    /\ IF ~confirmed
       THEN UNCHANGED <<subjects, tasks, subjectColors, stSubjects, stTasks, stColors,
                        notification, cards>>
       ELSE /\ subjects' = withoutSubject(subjects, subject)
            /\ tasks' = withoutTasksOf(tasks, subject)
            /\ stSubjects' = Storage_saveSubjects(subjects')
            /\ stTasks' = Storage_saveTasks(tasks')
            /\ IF HasColor(subjectColors, subject)
               THEN /\ subjectColors' = DeleteColor(subjectColors, subject)
                    /\ stColors' = Storage_saveSubjectColors(subjectColors')
               ELSE UNCHANGED <<subjectColors, stColors>>
            /\ cards' = renderSubjects(subjects', tasks')
            /\ notification' = Notice("Subject deleted", "info")
    /\ UNCHANGED <<loaded, now, uncaught, calVars, chatVars,
                   badgeVars>>

(***************************************************************************)
(* App.completeTask (part_000:313-323).                                    *)
(***************************************************************************)
\* tasks.findIndex(t => t.id === id), 0 for -1
findIndex(list, id) ==
    LET hits == {i \in 1..Len(list) : list[i].id = id}
    IN  IF hits = {} THEN 0 ELSE CHOOSE i \in hits : \A j \in hits : i <= j

\* mutant: completion toggles the flag
markCompleted_toggle(list, idx) == [list EXCEPT ![idx].completed = ~list[idx].completed]

markCompleted(list, idx) == [list EXCEPT ![idx].completed = TRUE]

\* mutant: the completion is not saved
completeTask_unsaved(id) ==
    LET idx == findIndex(tasks, id)
    IN  /\ loaded
        /\ IF idx > 0
           THEN /\ tasks' = markCompleted(tasks, idx)
                /\ notification' = Notice("Task completed!", "success")
                /\ UNCHANGED stTasks
           ELSE UNCHANGED <<tasks, stTasks, notification>>
        /\ UNCHANGED <<subjects, subjectColors, loaded, now, cards, stSubjects,
                       stColors, uncaught, calVars, chatVars,
                   badgeVars>>

completeTask(id) ==
    LET idx == findIndex(tasks, id)
    IN  /\ loaded
        /\ IF idx > 0
           THEN /\ tasks' = markCompleted(tasks, idx)
                /\ stTasks' = Storage_saveTasks(tasks')
                /\ notification' = Notice("Task completed!", "success")
           ELSE UNCHANGED <<tasks, stTasks, notification>>
        /\ UNCHANGED <<subjects, subjectColors, loaded, now, cards, stSubjects,
                       stColors, uncaught, calVars, chatVars,
                   badgeVars>>

(***************************************************************************)
(* App.deleteTask (part_000:324-336).                                      *)
(***************************************************************************)
\* mutant: the filter keeps the task instead of dropping it
withoutId_inverted(list, id) == FilterAt(list, {i \in 1..Len(list) : list[i].id = id})

withoutId(list, id) == FilterAt(list, {i \in 1..Len(list) : list[i].id # id})

deleteTask(id) ==
    LET kept == withoutId(tasks, id)
    IN  /\ loaded
        /\ tasks' = kept
        /\ IF Len(kept) < Len(tasks)
           THEN /\ stTasks' = Storage_saveTasks(kept)
                /\ notification' = Notice("Task deleted", "info")
           ELSE /\ notification' = Notice("Error: Task not found", "error")
                /\ UNCHANGED stTasks
        /\ UNCHANGED <<subjects, subjectColors, loaded, now, cards, stSubjects,
                       stColors, uncaught, calVars, chatVars,
                   badgeVars>>

(***************************************************************************)
(* The "input" listener on .subject-color-input (part_000:246-258).        *)
(***************************************************************************)
setSubjectColor(subj, color) ==
    /\ loaded
    /\ IF subj = <<>> \/ color = <<>>
       THEN UNCHANGED <<subjectColors, stColors>>
       ELSE /\ subjectColors' = PutColor(subjectColors, subj, color)
            /\ stColors' = Storage_saveSubjectColors(subjectColors')
    /\ UNCHANGED <<tasks, subjects, loaded, notification, now, cards, stTasks,
                   stSubjects, uncaught, calVars, chatVars,
                   badgeVars>>

\* The timers of completeTask and deleteTask (part_000:315, 320, 326, 331): the
\* clicked card leaves the DOM and the board is rendered again. Until then the
\* card of a deleted or completed task can still be clicked.
renderTimer ==
    /\ loaded
    /\ cards # renderSubjects(subjects, tasks)
    /\ cards' = renderSubjects(subjects, tasks)
    /\ UNCHANGED <<tasks, subjects, subjectColors, loaded, notification, now,
                   stTasks, stSubjects, stColors, uncaught, calVars, chatVars,
                   badgeVars>>

\* The clock advances; Date.now() never goes back.
Tick ==
    /\ now < MaxClock
    /\ now' = now + 1
    /\ UNCHANGED <<tasks, subjects, subjectColors, loaded, notification, cards,
                   stTasks, stSubjects, stColors, uncaught, calVars, chatVars,
                   badgeVars>>

(***************************************************************************)
(* The board session. Storage at page load is empty (first visit) or holds *)
(* tasks written before the subject list existed: no subjects, no colors,  *)
(* no priority (one or two of them, created before the session's clock).   *)
(* What the board itself writes is reached by its own actions, AppInit (a  *)
(* reload) included.                                                       *)
(***************************************************************************)
\* the calendar page and the chat page are not open
CalendarClosed ==
    /\ today = <<BaseYear, 0>>
    /\ year = BaseYear
    /\ monthIndex = 0
    /\ calReady = FALSE
    /\ cells = <<>>
ChatClosed ==
    /\ messages = <<>>
    /\ stHistory = Absent
    /\ stApiKey = ""
    /\ stModel = ""
    /\ chatReady = FALSE
    /\ inFlight = {}
    /\ sends = 0
\* no badge is looked at
BadgeIdle ==
    /\ clockDate = <<BaseYear, 0, 1>>
    /\ dueInput = <<>>
    /\ badge = NoBadge

LegacyTask(i, subject) ==
    Task(dateNowString(i), <<"x">>, subject, formatLocalISO(BaseYear, 0, 31), "", FALSE, i)

LegacyTaskLists ==
    UNION {{[i \in 1..n |-> LegacyTask(i, sub[i])] : sub \in [1..n -> SubjectNames]}
           : n \in 1..2}

idsOf(list) == {list[i].id : i \in 1..Len(list)}

Init ==
    /\ tasks = <<>>
    /\ subjects = <<>>
    /\ subjectColors = JsObject(EmptyMap)
    /\ loaded = FALSE
    /\ notification = NoNotice
    /\ now = MaxClock - 1
    /\ uncaught = "none"
    /\ stSubjects = Absent
    /\ stColors = Absent
    /\ cards = {}
    /\ \/ stTasks = Absent
       \/ \E list \in LegacyTaskLists : stTasks = JsArray(list)
    /\ CalendarClosed
    /\ ChatClosed
    /\ BadgeIdle

Next ==
    \/ AppInit
    \/ \E n \in TaskNameInputs, s \in Range(subjects) \cup {<<>>}, d \in DueDateInputs,
          p \in PriorityInputs : onSubmit(n, s, d, p)
    \/ \E input \in PromptInputs : onAddSubject(input)
    \/ \E s \in Range(subjects), c \in BOOLEAN : deleteSubject(s, c)
    \/ \E id \in cards : completeTask(id)
    \/ \E id \in cards : deleteTask(id)
    \/ \E s \in Range(subjects), c \in UserColors : setSubjectColor(s, c)
    \/ renderTimer
    \/ Tick

Spec == Init /\ [][Next]_vars

(***************************************************************************)
(* The calendar page (calendar.js).                                        *)
(***************************************************************************)
\* loadTasks (calendar.js:46-51); t.completed of a null element throws.
loadTasksThrows(raw) ==
    LET parsed == safelyParseJson(raw, JsArray(<<>>))
    IN  isArray(parsed) /\ \E i \in 1..Len(parsed.items) : parsed.items[i].ty = "null"

\* loadTasks without the filter on completed
loadTasks_keepCompleted(raw) ==
    LET parsed == safelyParseJson(raw, JsArray(<<>>))
    IN  IF isArray(parsed) THEN parsed.items ELSE <<>>

loadTasks(raw) ==
    LET parsed == safelyParseJson(raw, JsArray(<<>>))
        list == IF isArray(parsed) THEN parsed.items ELSE <<>>
    IN  FilterAt(list, {i \in 1..Len(list) : ~list[i].completed})

\* loadSubjectColors (calendar.js:53-57)
loadSubjectColors(raw) ==
    LET colors == safelyParseJson(raw, JsObject(EmptyMap))
    IN  IF isObjectLike(colors) THEN colors ELSE JsObject(EmptyMap)

\* groupTasksByDate (calendar.js:59-68): tasksByDate.get(key) || []
groupTasksByDate(list, key) ==
    FilterAt(list, {i \in 1..Len(list) : list[i].dueDate # <<>> /\ list[i].dueDate = key})

\* pri[t.priority || 'medium'] (calendar.js:120-121)
priorityRank(t) ==
    LET p == IF t.priority = "" THEN "medium" ELSE t.priority
    IN  CASE p = "high" -> 0 [] p = "medium" -> 1 [] p = "low" -> 2

\* items.sort((a, b) => pri[a.priority] - pri[b.priority]) (calendar.js:119-122)
sortByPriority(items) ==
    LET F[i \in 0..Len(items)] ==
            IF i = 0 THEN <<>>
            ELSE sortInsert(F[i - 1], items[i],
                     {j \in 1..Len(F[i - 1]) :
                          priorityRank(items[i]) - priorityRank(F[i - 1][j]) >= 0})
    IN  F[Len(items)]

\* renderMonth (calendar.js:77-138): the chips of the cells of days 1..daysInMonth
renderMonth(y, m, list) ==
    [day \in 1..getDaysInMonth(y, m) |->
        sortByPriority(groupTasksByDate(list, formatLocalISO(y, m, day)))]

\* refresh (calendar.js:196-200) for the month (y, m)
refresh(y, m) ==
    IF loadTasksThrows(stTasks)
    THEN /\ uncaught' = "refresh"
         /\ UNCHANGED cells
    ELSE /\ uncaught' = "none"
         /\ cells' = renderMonth(y, m, loadTasks(stTasks))

boardAndChatVars ==
    <<tasks, subjects, subjectColors, loaded, notification, now, cards, stTasks,
      stSubjects, stColors, chatVars, badgeVars>>

\* DOMContentLoaded (calendar.js:180-207)
calDOMContentLoaded ==
    /\ ~calReady
    /\ calReady' = TRUE
    /\ year' = today[1]
    /\ monthIndex' = today[2]
    /\ refresh(today[1], today[2])
    /\ UNCHANGED <<today, boardAndChatVars>>

\* click on #prevMonth (calendar.js:202)
prevMonth ==
    LET wrap == monthIndex - 1 < 0
        m == IF wrap THEN 11 ELSE monthIndex - 1
        y == IF wrap THEN year - 1 ELSE year
    IN  /\ calReady
        /\ y >= BaseYear - MaxYearSpan
        /\ monthIndex' = m
        /\ year' = y
        /\ refresh(y, m)
        /\ UNCHANGED <<today, calReady, boardAndChatVars>>

\* #nextMonth without the step into the next year
nextMonth_sameYear ==
    LET wrap == monthIndex + 1 > 11
        m == IF wrap THEN 0 ELSE monthIndex + 1
        y == year
    IN  /\ calReady
        /\ y <= BaseYear + MaxYearSpan
        /\ monthIndex' = m
        /\ year' = y
        /\ refresh(y, m)
        /\ UNCHANGED <<today, calReady, boardAndChatVars>>

\* click on #nextMonth (calendar.js:203)
nextMonth ==
    LET wrap == monthIndex + 1 > 11
        m == IF wrap THEN 0 ELSE monthIndex + 1
        y == IF wrap THEN year + 1 ELSE year
    IN  /\ calReady
        /\ y <= BaseYear + MaxYearSpan
        /\ monthIndex' = m
        /\ year' = y
        /\ refresh(y, m)
        /\ UNCHANGED <<today, calReady, boardAndChatVars>>

\* click on #goToday (calendar.js:204)
goToday ==
    /\ calReady
    /\ year' = today[1]
    /\ monthIndex' = today[2]
    /\ refresh(today[1], today[2])
    /\ UNCHANGED <<today, calReady, boardAndChatVars>>

\* The board, open in another tab, completes or deletes a stored task
\* (Storage.saveTasks from completeTask, deleteTask).
boardSavesTasks ==
    /\ stTasks.k = "array"
    /\ \E i \in 1..Len(stTasks.items) :
          \/ /\ ~stTasks.items[i].completed
             /\ stTasks' = Storage_saveTasks(markCompleted(stTasks.items, i))
          \/ stTasks' = Storage_saveTasks(FilterAt(stTasks.items, 1..Len(stTasks.items) \ {i}))
    /\ UNCHANGED <<tasks, subjects, subjectColors, loaded, notification, now, cards,
                   stSubjects, stColors, uncaught, calVars, chatVars,
                   badgeVars>>

CalDueDates == {<<>>, formatLocalISO(BaseYear, 0, 31), formatLocalISO(BaseYear, 1, 29)}
CalPriorities == {"", "high"}
CalTaskLists ==
    UNION {{[i \in 1..n |-> Task(dateNowString(i), <<"x">>, <<"a">>, due[i], pri[i],
                                 done[i], i)] :
                due \in [1..n -> CalDueDates], pri \in [1..n -> CalPriorities],
                done \in [1..n -> BOOLEAN]}
           : n \in 0..MaxCalTasks}

\* the board page is not open
BoardClosed ==
    /\ tasks = <<>>
    /\ subjects = <<>>
    /\ subjectColors = JsObject(EmptyMap)
    /\ loaded = FALSE
    /\ notification = NoNotice
    /\ now = MaxClock - 1
    /\ cards = {}
    /\ uncaught = "none"

InitCal ==
    /\ BoardClosed
    /\ ChatClosed
    /\ BadgeIdle
    /\ \E list \in CalTaskLists : stTasks = Storage_saveTasks(list)
    /\ stSubjects = Storage_saveSubjects(<<<<"a">>>>)
    /\ stColors = Storage_saveSubjectColors(JsObject(EmptyMap))
    /\ today = <<BaseYear, 0>>
    /\ year = today[1]
    /\ monthIndex = today[2]
    /\ calReady = FALSE
    /\ cells = <<>>

NextCal ==
    \/ calDOMContentLoaded
    \/ prevMonth
    \/ nextMonth
    \/ goToday
    \/ boardSavesTasks

SpecCal == InitCal /\ [][NextCal]_vars

(***************************************************************************)
(* The chat page: Chat.load and the first renderMessages                   *)
(* (part_000:385-402, 442-447); m.role of a null element throws.           *)
(***************************************************************************)
Message(role, content) == [ty |-> "object", role |-> role, content |-> content]
NullMessage == [ty |-> "null", role |-> "", content |-> ""]

Chat_load(raw) ==
    LET parsed == safelyParseJson(raw, JsArray(<<>>))
    IN  IF isArray(parsed) THEN parsed.items ELSE <<>>

renderMessagesThrows(list) == \E i \in 1..Len(list) : list[i].ty = "null"

chatDOMContentLoaded ==
    /\ ~chatReady
    /\ messages' = Chat_load(stHistory)
    /\ uncaught' = IF renderMessagesThrows(messages') THEN "chat DOMContentLoaded" ELSE "none"
    /\ chatReady' = ~renderMessagesThrows(messages')
    /\ UNCHANGED <<tasks, subjects, subjectColors, loaded, notification, now, cards,
                   stTasks, stSubjects, stColors, calVars, stHistory, stApiKey, stModel,
                   inFlight, sends, badgeVars>>

(***************************************************************************)
(* The chat session (part_000:385-504): sends, the responses of the API    *)
(* arriving in any order, clear-history and the API settings. The ts field *)
(* of a message is never read and is left out.                             *)
(***************************************************************************)
MaxSends == 2       \* sends with a non-empty input in a chat session

\* the JS string of a Text
str(t) ==
    LET F[i \in 0..Len(t)] == IF i = 0 THEN "" ELSE F[i - 1] \o t[i]
    IN  F[Len(t)]

ChatInputs == {<<>>, <<" ">>, <<"h", "i", " ">>, <<"y", "o">>}
ApiKeyInputs == {<<" ">>, <<"k", " ">>}
ModelChoices == {"gpt-4o-mini", "gpt-4o"}
KeyPrompt == "Please set your API key in the API dialog."

\* Chat.save, Chat.append (part_000:391-392)
Chat_save(msgs) == JSON_stringify(JsArray(msgs))
Chat_append(msgs, role, content) == Append(msgs, Message(role, content))

\* the request body with the last message only
requestMessages_lastOnly(msgs) ==
    [i \in 1..1 |-> [role |-> msgs[Len(msgs)].role, content |-> msgs[Len(msgs)].content]]

\* messages.map(m => ({ role: m.role, content: m.content })) (part_000:414)
requestMessages(msgs) ==
    [i \in 1..Len(msgs) |-> [role |-> msgs[i].role, content |-> msgs[i].content]]

\* the no-key branch appending nothing
promptForKey_silent(msgs) == msgs

\* the no-key branch of handleSend (part_000:484-488)
promptForKey(msgs) == Chat_append(msgs, "assistant", KeyPrompt)

\* What can come back for a request: a completion, a body without choices, a
\* body that is no JSON, a non-success status, a network failure.
Outcomes(r) ==
    {[kind |-> "ok", status |-> 200,
      text |-> "re: " \o r.messages[Len(r.messages)].content],
     [kind |-> "noChoice", status |-> 200, text |-> ""],
     [kind |-> "notJson", status |-> 200, text |-> "Unexpected end of JSON input"],
     [kind |-> "notOk", status |-> 500, text |-> "busy"],
     [kind |-> "network", status |-> 0, text |-> "Failed to fetch"]}

\* sendToOpenAI (part_000:406-424): the value returned or the message of the
\* Error thrown
sendToOpenAI(outcome) ==
    CASE outcome.kind = "network" -> [threw |-> TRUE, value |-> outcome.text]
      [] outcome.kind = "notOk" ->
            [threw |-> TRUE,
             value |-> "API error " \o ToString(outcome.status) \o ": " \o outcome.text]
      [] outcome.kind = "notJson" -> [threw |-> TRUE, value |-> outcome.text]
      [] outcome.kind = "noChoice" -> [threw |-> FALSE, value |-> "(No response)"]
      [] outcome.kind = "ok" -> [threw |-> FALSE, value |-> outcome.text]

\* try/catch of handleSend (part_000:490-497): the content of the assistant message
assistantText(outcome) ==
    LET res == sendToOpenAI(outcome)
    IN  IF res.threw THEN "Error: " \o res.value ELSE res.value

\* responses arriving in the order of the requests only
canSettle_inOrder(r) == r \in inFlight /\ \A q \in inFlight : r.n <= q.n

\* any request in flight may settle next: nothing orders the responses
canSettle(r) == r \in inFlight

boardAndCalVars ==
    <<tasks, subjects, subjectColors, loaded, notification, now, cards, stTasks,
      stSubjects, stColors, calVars, badgeVars>>

\* handleSend up to the await (part_000:474-490)
handleSend(input) ==
    LET text == str(jsTrim(input))
        withUser == Chat_append(messages, "user", text)
        model == IF stModel = "" THEN "gpt-4o-mini" ELSE stModel
    IN  /\ chatReady
        /\ IF text = ""
           THEN UNCHANGED <<messages, stHistory, inFlight, sends, uncaught>>
           ELSE /\ sends < MaxSends
                /\ sends' = sends + 1
                /\ uncaught' = "none"
                /\ IF stApiKey = ""
                   THEN /\ messages' = promptForKey(withUser)
                        /\ UNCHANGED inFlight
                   ELSE /\ messages' = withUser
                        /\ inFlight' = inFlight \cup
                               {[n |-> sends + 1, apiKey |-> stApiKey, model |-> model,
                                 messages |-> requestMessages(withUser)]}
                /\ stHistory' = Chat_save(messages')
        /\ UNCHANGED <<stApiKey, stModel, chatReady, boardAndCalVars>>

\* handleSend after the await (part_000:490-497): the fetch of request r settled
responseArrives(r, outcome) ==
    /\ canSettle(r)
    /\ messages' = Chat_append(messages, "assistant", assistantText(outcome))
    /\ stHistory' = Chat_save(messages')
    /\ inFlight' = inFlight \ {r}
    /\ uncaught' = "none"
    /\ UNCHANGED <<stApiKey, stModel, chatReady, sends, boardAndCalVars>>

\* click on #clearHistory (part_000:461-465)
clearHistory ==
    /\ chatReady
    /\ messages' = <<>>
    /\ stHistory' = Chat_save(messages')
    /\ UNCHANGED <<stApiKey, stModel, chatReady, inFlight, sends, uncaught, boardAndCalVars>>

\* click on #saveApiSettings (part_000:455-459)
saveApiSettings(keyInput, model) ==
    /\ chatReady
    /\ stApiKey' = str(jsTrim(keyInput))
    /\ stModel' = model
    /\ UNCHANGED <<messages, stHistory, chatReady, inFlight, sends, uncaught, boardAndCalVars>>

\* the fetch of the n-th send settles
settle(n) == \E r \in inFlight : r.n = n /\ \E o \in Outcomes(r) : responseArrives(r, o)

StoredHistories ==
    {Absent, Chat_save(<<Message("user", "hi"), Message("assistant", "re: hi")>>)}

InitChat ==
    /\ BoardClosed
    /\ stTasks = Absent
    /\ stSubjects = Absent
    /\ stColors = Absent
    /\ CalendarClosed
    /\ BadgeIdle
    /\ messages = <<>>
    /\ stHistory \in StoredHistories
    /\ stApiKey = ""
    /\ stModel = ""
    /\ chatReady = FALSE
    /\ inFlight = {}
    /\ sends = 0

NextChat ==
    \/ chatDOMContentLoaded
    \/ \E input \in ChatInputs : handleSend(input)
    \/ \E n \in 1..MaxSends : settle(n)
    \/ clearHistory
    \/ \E k \in ApiKeyInputs, m \in ModelChoices : saveApiSettings(k, m)

\* every fetch settles: the browser resolves or rejects its promise
SpecChat == InitChat /\ [][NextChat]_vars /\ \A n \in 1..MaxSends : WF_vars(settle(n))

(***************************************************************************)
(* Page loads over storage holding anything: absent, not JSON, JSON of the *)
(* wrong shape, arrays with null elements, and well-formed values.         *)
(***************************************************************************)
StoredTask == Task("1", <<"x">>, <<"a">>, formatLocalISO(BaseYear, 0, 31), "high", FALSE, 1)
WrongShapes == {Absent, NonJson, JsNull, JsScalar}
RawTasks ==
    WrongShapes \cup {JsObject(EmptyMap), JsArray(<<>>), JsArray(<<NullElem>>),
                      JsArray(<<StoredTask>>), JsArray(<<StoredTask, NullElem>>)}
RawSubjects ==
    WrongShapes \cup {JsObject(EmptyMap), JsArray(<<>>), JsArray(<<<<"a">>>>)}
RawColors ==
    WrongShapes \cup {JsArray(<<>>), JsObject(EmptyMap),
                      JsObject([x \in {<<"a">>} |-> <<"#","0","0","0","0","0","0">>])}
RawHistory ==
    WrongShapes \cup {JsObject(EmptyMap), JsArray(<<>>), JsArray(<<NullMessage>>),
                      JsArray(<<Message("user", "hi")>>)}

InitLoad ==
    /\ tasks = <<>>
    /\ subjects = <<>>
    /\ subjectColors = JsObject(EmptyMap)
    /\ loaded = FALSE
    /\ notification = NoNotice
    /\ now = MaxClock - 1
    /\ cards = {}
    /\ uncaught = "none"
    /\ stTasks \in RawTasks
    /\ stSubjects \in RawSubjects
    /\ stColors \in RawColors
    /\ stHistory \in RawHistory
    /\ messages = <<>>
    /\ stApiKey = ""
    /\ stModel = ""
    /\ chatReady = FALSE
    /\ inFlight = {}
    /\ sends = 0
    /\ BadgeIdle
    /\ today = <<BaseYear, 0>>
    /\ year = BaseYear
    /\ monthIndex = 0
    /\ calReady = FALSE
    /\ cells = <<>>

NextLoad ==
    \/ AppInit
    \/ calDOMContentLoaded
    \/ chatDOMContentLoaded

SpecLoad == InitLoad /\ [][NextLoad]_vars

(***************************************************************************)
(* The due-date badge of a task on the board (UI.taskHtml), over the days  *)
(* around a change of year and around the end of a leap February.          *)
(***************************************************************************)
MaxDays == 3        \* midnights that pass after the first day of a session

\* the day after <<y, m, d>>
nextDate(date) ==
    IF date[3] < getDaysInMonth(date[1], date[2]) THEN <<date[1], date[2], date[3] + 1>>
    ELSE IF date[2] < 11 THEN <<date[1], date[2] + 1, 1>>
    ELSE <<date[1] + 1, 0, 1>>

\* value of <input type="date"> for the date picked, "" when none is picked
dateInputValue(date) ==
    IF date = <<>> THEN <<>> ELSE formatLocalISO(date[1], date[2], date[3])

StartDates == {<<BaseYear - 1, 11, 30>>, <<BaseYear, 1, 27>>}
DueChoices ==
    {<<>>, <<BaseYear - 1, 11, 29>>, <<BaseYear - 1, 11, 31>>, <<BaseYear, 0, 1>>,
     <<BaseYear, 0, 2>>, <<BaseYear, 0, 3>>, <<BaseYear, 0, 31>>, <<BaseYear, 1, 27>>,
     <<BaseYear, 1, 28>>, <<BaseYear, 1, 29>>, <<BaseYear, 2, 1>>, <<BaseYear, 2, 2>>}

\* the user picks the due date of the task
pickDueDate(date) ==
    /\ dueInput' = date
    /\ UNCHANGED <<tasks, subjects, subjectColors, loaded, notification, now, cards,
                   stTasks, stSubjects, stColors, uncaught, calVars, chatVars,
                   clockDate, badge>>

\* UI.taskHtml renders the task
renderTask ==
    /\ badge' = taskHtml(dateInputValue(dueInput), clockDate)
    /\ UNCHANGED <<tasks, subjects, subjectColors, loaded, notification, now, cards,
                   stTasks, stSubjects, stColors, uncaught, calVars, chatVars,
                   clockDate, dueInput>>

\* midnight passes: new Date() is on the next day
midnight ==
    /\ \E s \in StartDates :
          newDate(clockDate[1], clockDate[2], clockDate[3]).day - newDate(s[1], s[2], s[3]).day
              \in 0..(MaxDays - 1)
    /\ clockDate' = nextDate(clockDate)
    /\ UNCHANGED <<tasks, subjects, subjectColors, loaded, notification, now, cards,
                   stTasks, stSubjects, stColors, uncaught, calVars, chatVars,
                   dueInput, badge>>

InitBadge ==
    /\ BoardClosed
    /\ stTasks = Absent
    /\ stSubjects = Absent
    /\ stColors = Absent
    /\ CalendarClosed
    /\ ChatClosed
    /\ clockDate \in StartDates
    /\ dueInput \in DueChoices
    /\ badge = NoBadge

NextBadge ==
    \/ \E date \in DueChoices : pickDueDate(date)
    \/ renderTask
    \/ midnight

SpecBadge == InitBadge /\ [][NextBadge]_vars

(***************************************************************************)
(* Claims about the board.                                                 *)
(***************************************************************************)
\* what a page load would read back from storage
PersistedTasks == LET p == Storage_loadTasks(stTasks) IN IF isArray(p) THEN p.items ELSE <<>>
PersistedSubjects == Storage_loadSubjects(stSubjects)
PersistedColors == Storage_loadSubjectColors(stColors)

IsSortedUnique(list) ==
    \A i, j \in 1..Len(list) : i < j => localeCompare(list[i], list[j]) < 0

\* C1: in every state of a board session, after init (also when init derived the
\* list from stored tasks) and after any add-subject or delete-subject, the
\* subject list in memory and in storage is sorted and has no duplicate name.
C1_SubjectListSortedUnique ==
    loaded => IsSortedUnique(subjects) /\ IsSortedUnique(PersistedSubjects)

\* C2: a confirmed deleteSubject(S) removes exactly the tasks of S, keeps every
\* other task with its fields and order, removes S from the subject list and
\* S's color entry, and persists all three; a declined one changes nothing.
C2_DeleteSubjectFrame ==
    [][\A s \in Range(subjects) :
        /\ deleteSubject(s, TRUE) =>
            /\ tasks' = SelectSeq(tasks, LAMBDA t : t.subject # s)
            /\ subjects' = SelectSeq(subjects, LAMBDA x : x # s)
            /\ s \notin DOMAIN subjectColors'.map
            /\ \A x \in DOMAIN subjectColors.map \ {s} :
                  x \in DOMAIN subjectColors'.map /\ subjectColors'.map[x] = subjectColors.map[x]
            /\ PersistedTasks' = tasks'
            /\ PersistedSubjects' = subjects'
            /\ PersistedColors' = subjectColors'
        /\ deleteSubject(s, FALSE) =>
            UNCHANGED <<tasks, subjects, subjectColors, stTasks, stSubjects, stColors>>
      ]_vars

\* C2 witness: a subject with a task was deleted while another subject's task stays
C2_Witness ==
    /\ notification = Notice("Subject deleted", "info")
    /\ Len(tasks) = 1 /\ Len(subjects) = 1
    /\ tasks[1].subject = subjects[1]

\* C3: every task created by onSubmit gets an id that no other task has (stated
\* for the tasks still in the list, which were all created before it).
C3_FreshIds ==
    [][\A n \in TaskNameInputs, s \in Range(subjects) \cup {<<>>}, d \in DueDateInputs,
          p \in PriorityInputs :
        (onSubmit(n, s, d, p) /\ Len(tasks') = Len(tasks) + 1) =>
            tasks'[Len(tasks')].id \notin idsOf(tasks)
      ]_vars

\* C4: after every board operation the persisted tasks, subjects and
\* subjectColors equal the ones in memory.
C4_PersistedEqualsMemory ==
    loaded =>
        /\ PersistedTasks = tasks
        /\ PersistedSubjects = subjects
        /\ PersistedColors = subjectColors

\* C4 witness: a completed task, a user-set color and a second subject are in memory
C4_Witness ==
    /\ loaded
    /\ \E i \in 1..Len(tasks) : tasks[i].completed
    /\ Len(subjects) = 2
    /\ \E s \in Range(subjects) : HasColor(subjectColors, s) /\ subjectColors.map[s] \in UserColors

\* C5: every task's subject is a member of the subject list.
C5_TaskSubjectsKnown ==
    loaded => \A i \in 1..Len(tasks) : tasks[i].subject \in Range(subjects)

\* C5 witness: tasks of two subjects, after one subject was added and tasks with it
C5_Witness ==
    /\ notification = Notice("Task added successfully!", "success")
    /\ Len(tasks) = 2 /\ tasks[1].subject # tasks[2].subject

\* C6 as claimed: onSubmit with name, subject, dueDate or priority empty shows an
\* error and leaves the tasks alone; otherwise it appends one not-completed task.
C6_EmptyFieldRejected ==
    [][\A n \in TaskNameInputs, s \in Range(subjects) \cup {<<>>}, d \in DueDateInputs,
          p \in PriorityInputs :
        onSubmit(n, s, d, p) =>
            IF jsTrim(n) = <<>> \/ jsTrim(s) = <<>> \/ d = <<>> \/ p = ""
            THEN /\ notification'.type = "error"
                 /\ tasks' = tasks /\ stTasks' = stTasks
            ELSE /\ Len(tasks') = Len(tasks) + 1
                 /\ SubSeq(tasks', 1, Len(tasks)) = tasks
                 /\ ~tasks'[Len(tasks')].completed
                 /\ PersistedTasks' = tasks'
      ]_vars

\* C6 as amended: onSubmit with name, subject or dueDate empty (name and subject
\* trimmed) shows an error and leaves the tasks and the persisted tasks alone;
\* an empty priority is replaced by "medium"; with name, subject and dueDate
\* non-empty it appends exactly one task, not completed, carrying the inputs,
\* and persists the list.
C6_AddTaskValidation ==
    [][\A n \in TaskNameInputs, s \in Range(subjects) \cup {<<>>}, d \in DueDateInputs,
          p \in PriorityInputs :
        onSubmit(n, s, d, p) =>
            IF jsTrim(n) = <<>> \/ jsTrim(s) = <<>> \/ d = <<>>
            THEN /\ notification'.type = "error"
                 /\ tasks' = tasks /\ stTasks' = stTasks
            ELSE /\ Len(tasks') = Len(tasks) + 1
                 /\ SubSeq(tasks', 1, Len(tasks)) = tasks
                 /\ LET t == tasks'[Len(tasks')]
                    IN  /\ ~t.completed
                        /\ t.name = jsTrim(n) /\ t.subject = jsTrim(s) /\ t.dueDate = d
                        /\ t.priority = (IF p = "" THEN "medium" ELSE p)
                 /\ PersistedTasks' = tasks'
                 /\ notification'.type = "success"
      ]_vars

\* C6 witness: a task added with an empty priority got "medium", then a submit failed
C6_Witness ==
    /\ notification = Notice("Please fill in all fields", "error")
    /\ \E i \in 1..Len(tasks) : tasks[i].id = dateNowString(now) /\ tasks[i].priority = "medium"

\* C7: deleteTask(id) removes the tasks with that id, leaves the others, persists
\* and shows a non-error notification; with no such task it changes neither the
\* list nor storage and shows an error.
C7_DeleteTask ==
    [][\A id \in cards :
        deleteTask(id) =>
            IF \E i \in 1..Len(tasks) : tasks[i].id = id
            THEN /\ tasks' = SelectSeq(tasks, LAMBDA t : t.id # id)
                 /\ PersistedTasks' = tasks'
                 /\ notification'.type \in {"success", "info"}
            ELSE /\ tasks' = tasks /\ stTasks' = stTasks
                 /\ notification'.type = "error"
      ]_vars

\* C7 witness: the second click on a deleted task's card found no task
C7_Witness ==
    /\ notification = Notice("Error: Task not found", "error")
    /\ cards # renderSubjects(subjects, tasks)

\* C8: completeTask(id) sets completed on one task with that id, changes nothing
\* else and persists; with no such task nothing changes. A completed task in
\* storage stays there, completed, unless a deleteTask of its id or a
\* deleteSubject of its subject removes it.
C8_CompleteTask ==
    [][/\ \A id \in cards :
            completeTask(id) =>
                IF \E i \in 1..Len(tasks) : tasks[i].id = id
                THEN /\ \E i \in 1..Len(tasks) :
                          /\ tasks[i].id = id
                          /\ tasks' = [tasks EXCEPT ![i].completed = TRUE]
                     /\ PersistedTasks' = tasks'
                     /\ UNCHANGED <<subjects, subjectColors, stSubjects, stColors>>
                ELSE UNCHANGED <<tasks, subjects, subjectColors, stTasks, stSubjects, stColors>>
       /\ \A i \in 1..Len(PersistedTasks) :
            PersistedTasks[i].completed =>
                \/ PersistedTasks[i] \in Range(PersistedTasks')
                \/ deleteTask(PersistedTasks[i].id)
                \/ deleteSubject(PersistedTasks[i].subject, TRUE)
      ]_vars

\* C8 witness: a task was completed, its card is still on the board (the timer
\* has not fired yet) and another task is still open
C8_Witness ==
    /\ notification = Notice("Task completed!", "success")
    /\ \E i \in 1..Len(tasks) : tasks[i].completed /\ tasks[i].id \in cards
    /\ \E i \in 1..Len(tasks) : ~tasks[i].completed


(***************************************************************************)
(* Claims about loading and about the calendar.                            *)
(***************************************************************************)
\* a stored value that is no array, or an array holding a null element
NotAList(raw) ==
    LET parsed == safelyParseJson(raw, JsArray(<<>>))
    IN  \/ raw.k \in {"absent", "text"}
        \/ ~isArray(parsed)
        \/ \E i \in 1..Len(parsed.items) : parsed.items[i].ty = "null"

\* a stored value that is no object, or is an array
NotAMap(raw) == raw.k # "object"

\* C9: whatever the stored value of a key (absent, not JSON, of the wrong shape,
\* an array holding null), the load of the board, of the calendar and of the
\* chat client throws nothing and yields the fallback: an empty task list, an
\* empty subject list, a color map that is an object holding only the default
\* colors of the subjects, an empty calendar, an empty message list.
C9_LoadYieldsFallback ==
    [][/\ AppInit =>
            /\ uncaught' = "none"
            /\ NotAList(stTasks) => tasks' = <<>>
            /\ stSubjects.k # "array" /\ NotAList(stTasks) => subjects' = <<>>
            /\ NotAMap(stColors) =>
                  subjectColors' = withDefaultColors(JsObject(EmptyMap), subjects')
       /\ calDOMContentLoaded =>
            /\ uncaught' = "none"
            /\ NotAList(stTasks) => \A d \in DOMAIN cells' : cells'[d] = <<>>
       /\ chatDOMContentLoaded =>
            /\ uncaught' = "none"
            /\ NotAList(stHistory) => messages' = <<>>
      ]_vars

\* the tasks in persisted storage
StoredTasks == IF stTasks.k = "array" THEN stTasks.items ELSE <<>>

\* the chips of the grid that show the task with this id
ChipsOf(grid, id) ==
    {<<d, c>> \in UNION {{<<d, c>> : c \in 1..Len(grid[d])} : d \in DOMAIN grid} :
        grid[d][c].id = id}

\* "yyyy-mm" of a due date and of the displayed month
monthOf(dueDate) == IF Len(dueDate) >= 7 THEN SubSeq(dueDate, 1, 7) ELSE <<>>
displayedMonth(y, m) == yearString(y) \o <<"-">> \o padStart2(m + 1)

\* C10: after every refresh of the calendar (page load, previous, next, today)
\* the grid has one cell per day of the displayed month; every chip of a cell is
\* a non-completed task in storage at that moment whose dueDate is the cell's
\* date; every non-completed stored task whose dueDate lies in the displayed
\* month is a chip of exactly one cell; a completed task and a task without
\* dueDate is in no cell.
C10_CalendarBucketing ==
    [][(calDOMContentLoaded \/ prevMonth \/ nextMonth \/ goToday) =>
        /\ DOMAIN cells' = 1..getDaysInMonth(year', monthIndex')
        /\ \A d \in DOMAIN cells' : \A c \in 1..Len(cells'[d]) :
              /\ cells'[d][c] \in Range(StoredTasks')
              /\ ~cells'[d][c].completed
              /\ cells'[d][c].dueDate = formatLocalISO(year', monthIndex', d)
        /\ \A i \in 1..Len(StoredTasks') :
              LET t == StoredTasks'[i]
                  shown == ChipsOf(cells', t.id)
              IN  IF ~t.completed /\ monthOf(t.dueDate) = displayedMonth(year', monthIndex')
                  THEN Cardinality(shown) = 1
                  ELSE shown = {}
      ]_vars

\* C10 witness: the calendar shows February; storage holds two tasks due on the
\* 29th, one of them completed, and the cell of the 29th shows the other one only
C10_Witness ==
    /\ calReady
    /\ uncaught = "none"
    /\ monthIndex = 1
    /\ 29 \in DOMAIN cells
    /\ Len(cells[29]) = 1
    /\ cells[29][1] \in Range(StoredTasks)
    /\ \E i \in 1..Len(StoredTasks) :
          /\ StoredTasks[i].completed
          /\ StoredTasks[i].dueDate = formatLocalISO(year, monthIndex, 29)


(***************************************************************************)
(* Claims about the order of the tasks shown.                              *)
(***************************************************************************)
\* C11: in every list of tasks shown for a day (here: the card of a subject on
\* the board), a task of higher priority stands before a task of lower
\* priority due the same day: high, then medium (also when the priority is
\* absent), then low.
C11_BoardPriorityOrder ==
    loaded =>
        \A s \in Range(subjects) :
            LET shown == subjectTasks(s, tasks)
            IN  \A i, j \in 1..Len(shown) :
                    i < j /\ shown[i].dueDate = shown[j].dueDate =>
                        priorityRank(shown[i]) <= priorityRank(shown[j])


\* <<y, m, d>> of a is a day before that of b
DateBefore(a, b) ==
    \/ a[1] < b[1]
    \/ a[1] = b[1] /\ a[2] < b[2]
    \/ a[1] = b[1] /\ a[2] = b[2] /\ a[3] < b[3]

\* C12: the badge UI.taskHtml builds for a task with a due date depends on the
\* calendar dates only: due before today gives class "overdue" and "Overdue -
\* <date>"; due today gives "Due Today - <date>"; due tomorrow gives "Due
\* Tomorrow - <date>"; any later day gives the plain date (the four cases
\* exclude each other and cover every due date); due 2024-01-01 seen on
\* 2024-01-02 gives "Overdue - Mon, Jan 1, 2024".
C12_DueDateBadge ==
    [][renderTask /\ dueInput # <<>> =>
        LET due == dueInput
            long == formatLongDate(newDate(due[1], due[2], due[3]))
        IN  /\ DateBefore(due, clockDate) => badge' = Badge("overdue", "Overdue - " \o long)
            /\ due = clockDate => badge'.txt = "Due Today - " \o long /\ badge'.cls # "overdue"
            /\ due = nextDate(clockDate) =>
                  badge'.txt = "Due Tomorrow - " \o long /\ badge'.cls # "overdue"
            /\ DateBefore(nextDate(clockDate), due) => badge' = Badge("", long)
            /\ due = <<2024, 0, 1>> /\ clockDate = <<2024, 0, 2>> =>
                  badge' = Badge("overdue", "Overdue - Mon, Jan 1, 2024")
      ]_vars

\* C12 witness: on 2024-01-02 the task due 2024-01-01 is shown as overdue
C12_Witness ==
    /\ clockDate = <<2024, 0, 2>>
    /\ dueInput = <<2024, 0, 1>>
    /\ badge = Badge("overdue", "Overdue - Mon, Jan 1, 2024")


(***************************************************************************)
(* Claims about the chat client.                                           *)
(***************************************************************************)
\* what a load of the chat page would read back from storage
PersistedHistory == Chat_load(stHistory)

\* C13: a send with a non-empty input and no API key appends the user message
\* and then exactly one assistant message with the configuration prompt,
\* persists both, sends no request and leaves no request of this send pending.
C13_SendWithoutKey ==
    [][\A input \in ChatInputs :
        handleSend(input) /\ jsTrim(input) # <<>> /\ stApiKey = "" =>
            /\ messages' = messages \o
                   <<Message("user", str(jsTrim(input))),
                     Message("assistant", "Please set your API key in the API dialog.")>>
            /\ PersistedHistory' = messages'
            /\ inFlight' = inFlight
            /\ ~\E r \in inFlight' : r.n = sends'
            /\ uncaught' = "none"
      ]_vars

\* C13 witness: the key was set and then emptied again; the second send got
\* the configuration prompt while the first one is still in flight
C13_Witness ==
    /\ stApiKey = ""
    /\ Len(messages) >= 3
    /\ messages[Len(messages)] = Message("assistant", KeyPrompt)
    /\ messages[Len(messages) - 1].role = "user"
    /\ inFlight # {}

\* C14: a send with a non-empty input and an API key appends the user message
\* and issues exactly one request carrying the whole stored history of that
\* moment; when the request settles exactly one assistant message is appended:
\* the reply (or the placeholder) on success, "Error: ..." on a non-success
\* status, a network failure or an unreadable body; nothing escapes the handler,
\* no other step issues a request, and every request in flight eventually
\* settles.
C14_SendWithKey ==
    /\ [][/\ \A input \in ChatInputs :
                handleSend(input) /\ jsTrim(input) # <<>> /\ stApiKey # "" =>
                    /\ messages' = Append(messages, Message("user", str(jsTrim(input))))
                    /\ PersistedHistory' = messages'
                    /\ \E r \in inFlight' :
                          /\ r \notin inFlight
                          /\ inFlight' = inFlight \cup {r}
                          /\ Len(r.messages) = Len(PersistedHistory')
                          /\ \A i \in 1..Len(r.messages) :
                                /\ r.messages[i].role = PersistedHistory'[i].role
                                /\ r.messages[i].content = PersistedHistory'[i].content
                    /\ uncaught' = "none"
          /\ \A r \in inFlight : \A o \in Outcomes(r) :
                responseArrives(r, o) =>
                    /\ Len(messages') = Len(messages) + 1
                    /\ SubSeq(messages', 1, Len(messages)) = messages
                    /\ messages'[Len(messages')].role = "assistant"
                    /\ messages'[Len(messages')].content =
                          CASE o.kind = "ok" -> o.text
                            [] o.kind = "noChoice" -> "(No response)"
                            [] o.kind = "notOk" -> "Error: API error 500: busy"
                            [] o.kind = "network" -> "Error: Failed to fetch"
                            [] o.kind = "notJson" -> "Error: Unexpected end of JSON input"
                    /\ PersistedHistory' = messages'
                    /\ inFlight' = inFlight \ {r}
                    /\ uncaught' = "none"
          /\ (inFlight' \ inFlight # {}) => \E input \in ChatInputs : handleSend(input)
         ]_vars
    /\ \A n \in 1..MaxSends :
          (\E r \in inFlight : r.n = n) ~> ~(\E r \in inFlight : r.n = n)

\* C14 witness: two sends with a key are settled, one by a reply and one by a
\* network failure
C14_Witness ==
    /\ sends = 2
    /\ inFlight = {}
    /\ \E i, j \in 1..Len(messages) :
          /\ messages[i] = Message("assistant", "Error: Failed to fetch")
          /\ messages[j] = Message("assistant", "re: yo")

\* C15: while a request is in flight a further send is accepted, any request
\* in flight may be the next to settle, and the assistant message of a
\* settling request goes to the end of the history: the replies stand in the
\* order of arrival.
C15_RepliesInArrivalOrder ==
    /\ [](chatReady /\ inFlight # {} =>
            /\ sends < MaxSends => ENABLED handleSend(<<"y", "o">>)
            /\ \A r \in inFlight : ENABLED (\E o \in Outcomes(r) : responseArrives(r, o)))
    /\ [][\A r \in inFlight : \A o \in Outcomes(r) :
            responseArrives(r, o) =>
                messages' = Append(messages, Message("assistant", assistantText(o)))
         ]_vars

\* C15 witness: the history user1, user2, reply2, reply1
C15_Witness ==
    messages = <<Message("user", "hi"), Message("user", "yo"),
                 Message("assistant", "re: yo"), Message("assistant", "re: hi")>>

\* C18: in every prefix of the chat history there are at most as many
\* assistant messages as user messages.
C18_AssistantFollowsUser ==
    \A k \in 0..Len(messages) :
        Cardinality({i \in 1..k : messages[i].role = "assistant"})
            <= Cardinality({i \in 1..k : messages[i].role = "user"})


(***************************************************************************)
(* Claims about the calendar's navigation.                                 *)
(***************************************************************************)
\* the month after and the month before (y, m), as the calendar counts them
monthAfter(y, m) == IF m = 11 THEN <<y + 1, 0>> ELSE <<y, m + 1>>
monthBefore(y, m) == IF m = 0 THEN <<y - 1, 11>> ELSE <<y, m - 1>>

\* C16: monthIndex stays within 0..11; next from month 11 gives month 0 of the
\* next year and prev from month 0 gives month 11 of the year before, otherwise
\* the year stays; today gives the current month; next undoes prev and prev
\* undoes next.
C16_CalendarNavigation ==
    [][/\ monthIndex \in 0..11 /\ monthIndex' \in 0..11
       /\ nextMonth =>
            /\ <<year', monthIndex'>> = monthAfter(year, monthIndex)
            /\ monthBefore(year', monthIndex') = <<year, monthIndex>>
       /\ prevMonth =>
            /\ <<year', monthIndex'>> = monthBefore(year, monthIndex)
            /\ monthAfter(year', monthIndex') = <<year, monthIndex>>
       /\ goToday => <<year', monthIndex'>> = today
      ]_vars

\* C16 witness: next has stepped from December into January of the next year
C16_Witness ==
    /\ calReady
    /\ year = BaseYear + 1
    /\ monthIndex = 0


(***************************************************************************)
(* Claims about the subject colors.                                        *)
(***************************************************************************)
\* C17: the color of a subject, in memory and in storage, is changed by no step
\* but the user's setting a color for that subject and the deletion of that
\* subject: not by operations on other subjects or on tasks and not by a
\* reload; a color entry that appears without the user's setting it is the
\* deterministic default, given to a subject that had no entry.
C17_UserColorKept ==
    [][/\ \A s \in DOMAIN subjectColors.map \cup DOMAIN PersistedColors.map :
            \/ \E c \in UserColors : setSubjectColor(s, c)
            \/ deleteSubject(s, TRUE)
            \/ /\ HasColor(subjectColors, s) =>
                      /\ HasColor(subjectColors', s)
                      /\ subjectColors'.map[s] = subjectColors.map[s]
               /\ HasColor(PersistedColors, s) =>
                      /\ HasColor(PersistedColors', s)
                      /\ PersistedColors'.map[s] = PersistedColors.map[s]
       /\ \A s \in DOMAIN subjectColors'.map :
            ~HasColor(subjectColors, s) /\ ~HasColor(PersistedColors, s) =>
                subjectColors'.map[s] = generateColorFor(s)
      ]_vars

\* C17 witness: subject a still has the color the user set, in memory and in
\* storage, after the other subject was deleted
C17_Witness ==
    /\ loaded
    /\ notification = Notice("Subject deleted", "info")
    /\ subjects = << <<"a">> >>
    /\ HasColor(subjectColors, <<"a">>)
    /\ subjectColors.map[<<"a">>] \in UserColors
    /\ PersistedColors.map[<<"a">>] \in UserColors

====
